---------------------------- MODULE Spec2Model ----------------------------
(***************************************************************************)
(* A model of go-CA: main.go (the root CA generator) and the companion     *)
(* shell script that issues two leaf certificates against the root.        *)
(*                                                                         *)
(* Go's int and time arithmetic is 64 bits wide (a 64-bit build); TLC's    *)
(* integers are not, so 64-bit and big.Int values are little-endian        *)
(* sequences of 16-bit limbs and the arithmetic is done limb by limb.      *)
(***************************************************************************)
EXTENDS Integers, Sequences, FiniteSets, TLC

(***************************************************************************)
(* Limb arithmetic on naturals of any length (math/big, and the exact      *)
(* values the 64-bit results are compared with).                           *)
(***************************************************************************)
LimbBase == 2^16

Limb(a, i) == IF i <= Len(a) THEN a[i] ELSE 0

RECURSIVE Norm(_)
Norm(a) == IF Len(a) > 0 /\ a[Len(a)] = 0 THEN Norm(SubSeq(a, 1, Len(a) - 1)) ELSE a

Pad(a, n) == [i \in 1..n |-> Limb(a, i)]

RECURSIVE AddCarry(_, _, _)
AddCarry(a, b, i) ==
    IF i = 0 THEN 0 ELSE (Limb(a, i) + Limb(b, i) + AddCarry(a, b, i - 1)) \div LimbBase

NatAdd(a, b) ==
    LET n == (IF Len(a) > Len(b) THEN Len(a) ELSE Len(b)) + 1
    IN  Norm([i \in 1..n |-> (Limb(a, i) + Limb(b, i) + AddCarry(a, b, i - 1)) % LimbBase])

RECURSIVE MulCarry(_, _, _)
MulCarry(a, c, i) ==
    IF i = 0 THEN 0 ELSE (Limb(a, i) * c + MulCarry(a, c, i - 1)) \div LimbBase

\* a * c for a factor c < 2^15 (a limb product must stay below 2^31).
NatMulSmall(a, c) ==
    Norm([i \in 1..(Len(a) + 1) |-> (Limb(a, i) * c + MulCarry(a, c, i - 1)) % LimbBase])

RECURSIVE NatLessFrom(_, _, _)
NatLessFrom(a, b, i) ==
    IF i = 0 THEN FALSE
    ELSE IF Limb(a, i) # Limb(b, i) THEN Limb(a, i) < Limb(b, i)
    ELSE NatLessFrom(a, b, i - 1)

NatLess(a, b) == NatLessFrom(a, b, IF Len(a) > Len(b) THEN Len(a) ELSE Len(b))

\* A natural below 2^31 as limbs.
NatOf(n) == Norm(<<n % LimbBase, n \div LimbBase>>)

\* big.Int.Lsh(x, n): x * 2^n.
BigLsh(x, n) == Norm([i \in 1..(n \div 16) |-> 0] \o NatMulSmall(x, 2^(n % 16)))

(***************************************************************************)
(* Go's 64-bit int / int64: four limbs, two's complement, wrapping.        *)
(***************************************************************************)
IntLimbs == 64 \div 16

Wrap64(a) == Pad(a, IntLimbs)

IsNeg64(x) == x[IntLimbs] >= LimbBase \div 2

Neg64(x) == Wrap64(NatAdd([i \in 1..IntLimbs |-> LimbBase - 1 - x[i]], NatOf(1)))

\* The int64 of a small TLC integer.
Int64(n) == IF n >= 0 THEN Wrap64(NatOf(n)) ELSE Neg64(Wrap64(NatOf(-n)))

Add64(x, y) == Wrap64(NatAdd(x, y))

Less64(x, y) ==
    IF IsNeg64(x) # IsNeg64(y) THEN IsNeg64(x) ELSE NatLess(x, y)

Positive64(x) == ~IsNeg64(x) /\ Norm(x) # <<>>

\* x * 86400 (the seconds of a day, 675 * 128) without wrapping.
NatMulSecondsPerDay(x) == NatMulSmall(NatMulSmall(x, 675), 128)


(***************************************************************************)
(* Strings are sequences of characters, so that trimming is computed.      *)
(***************************************************************************)
MaxLineLen == 2

Chars == {" ", "a"}

Strings(n) == UNION {[1..k -> Chars] : k \in 0..n}

RECURSIVE TrimLeft(_)
TrimLeft(s) == IF s # <<>> /\ Head(s) = " " THEN TrimLeft(Tail(s)) ELSE s

RECURSIVE TrimRight(_)
TrimRight(s) ==
    IF s # <<>> /\ s[Len(s)] = " " THEN TrimRight(SubSeq(s, 1, Len(s) - 1)) ELSE s

\* strings.TrimSpace
TrimSpace(s) == TrimRight(TrimLeft(s))

\* promptUser without the strings.TrimSpace of line 145
promptUserNoTrim(line, defaultValue) ==
    IF line = <<>> THEN defaultValue ELSE line

\* promptUser: the line read (empty at end of input, the read error is dropped),
\* trimmed; the default when nothing is left.
promptUser(line, defaultValue) ==
    LET input == TrimSpace(line)
    IN  IF input = <<>> THEN defaultValue ELSE input

(***************************************************************************)
(* Paths are sequences of components; file modes are permission bits.      *)
(***************************************************************************)
RECURSIVE Clean(_)
Clean(p) ==
    IF p = <<>> THEN <<>>
    ELSE IF Head(p) = "." THEN Clean(Tail(p))
    ELSE <<Head(p)>> \o Clean(Tail(p))

\* filepath.Join(dir, name)
Join(dir, name) == Clean(dir \o <<name>>)

Parent(p) == SubSeq(p, 1, Len(p) - 1)

Prefixes(p) == {SubSeq(p, 1, k) : k \in 0..Len(p)}

Under(p, dir) == Len(p) >= Len(dir) /\ SubSeq(p, 1, Len(dir)) = dir

RECURSIVE BitClear(_, _, _)
\* perm &^ mask over the low n bits
BitClear(perm, mask, n) ==
    IF n = 0 THEN 0
    ELSE 2 * BitClear(perm \div 2, mask \div 2, n - 1)
         + (IF mask % 2 = 1 THEN 0 ELSE perm % 2)

CertPerm == 420   \* 0644
KeyPerm  == 384   \* 0600

Umasks == {18, 63}   \* 022, 077

\* A file's content is a PEM block, bytes a sequence of at most one value.
Content(type, bytes) == [type |-> type, bytes |-> bytes]

NoFile == [mode |-> -1, content |-> Content("none", <<>>)]

OldFile(mode) == [mode |-> mode, content |-> Content("old", <<>>)]

FileAt(files, path) == IF path \in DOMAIN files THEN files[path] ELSE NoFile

\* os.WriteFile: O_WRONLY|O_CREATE|O_TRUNC; perm (less the umask) is used only
\* when the file is created, an existing file keeps its mode.
WriteFile(files, mask, path, data, perm) ==
    IF path \in DOMAIN files
    THEN [files EXCEPT ![path].content = data]
    ELSE (path :> [mode |-> BitClear(perm, mask, 9), content |-> data]) @@ files

\* The open succeeded and the write did not: the file is there, truncated.
WriteFileTruncated(files, mask, path, perm) ==
    WriteFile(files, mask, path, Content("truncated", <<>>), perm)


(***************************************************************************)
(* Constants of main.go and the values the flags are drawn from.           *)
(***************************************************************************)
defaultValidityDays == 3650
defaultKeyBitSize   == 4096
defaultCertFileName == "ca.crt"
defaultKeyFileName  == "ca.key"
defaultOutputDir    == <<".">>

\* A nil pointer or slice is the empty sequence, a value v is <<v>>; a nil
\* error is NoErr.
Nil == <<>>
Val(v) == <<v>>
NoErr == "nil"

\* 2^57 days: 2^57 * 86400 is a multiple of 2^64.
Days2to57 == Wrap64(BigLsh(NatOf(1), 57))

DaysValues ==
    { Int64(-1), Int64(0), Int64(1), Int64(defaultValidityDays), Int64(3000000),
      Add64(Days2to57, Int64(-1)), Days2to57 }

BitsValues == {0, 1024, 3072, defaultKeyBitSize}

FileNames == {defaultCertFileName, defaultKeyFileName}

OutputDirs == {defaultOutputDir, <<"my_ca">>}

CNFlags == {<<>>, <<"a">>}

OrgFlags == {<<>>, <<"a">>}

\* time.Now(), in Unix seconds (UTC)
NowValues == {Int64(1793800000), Int64(1793886399)}

KeyIds == {"k1", "k2"}

\* The first instants of the years 0 and 10000, in Unix seconds.
Year0     == <<33792, 34443, 65521, 65535>>
Year10000 == <<16768, 65524, 58, 0>>

(***************************************************************************)
(* crypto/x509, crypto/rand, time: what the calls of GenerateRootCA do.    *)
(***************************************************************************)
\* t.AddDate(0, 0, days), t in UTC: time.Date adds the days to the day of the
\* month and turns the date into seconds in 64 bits, with no overflow check.
AddDate(t, days) == Add64(t, Wrap64(NatMulSecondsPerDay(days)))

\* the limit shifted by a byte too many
serialNumberLimitWide == BigLsh(NatOf(1), 136)

serialNumberLimit == BigLsh(NatOf(1), 128)

SerialValues ==
    { <<>>, BigLsh(NatOf(1), 64), [i \in 1..8 |-> LimbBase - 1],
      BigLsh(NatOf(1), 128), BigLsh(NatOf(1), 135) }

\* rand.Int(rand.Reader, max): the values it can return
randInt(max) == {s \in SerialValues : NatLess(s, max)}

pkixName(cfg) ==
    [CommonName |-> cfg.CommonName, Organization |-> <<cfg.Organization>>]

\* the template with MaxPathLen left at zero
TemplateNoPathLen(cfg, serial, notBefore) ==
    [ SerialNumber          |-> serial,
      Subject               |-> pkixName(cfg),
      Issuer                |-> pkixName(cfg),
      NotBefore             |-> notBefore,
      NotAfter              |-> AddDate(notBefore, cfg.ValidityDays),
      KeyUsage              |-> {"CertSign", "CRLSign"},
      ExtKeyUsage           |-> {},
      BasicConstraintsValid |-> TRUE,
      IsCA                  |-> TRUE,
      MaxPathLen            |-> 0,
      MaxPathLenZero        |-> FALSE ]

Template(cfg, serial, notBefore) ==
    [ SerialNumber          |-> serial,
      Subject               |-> pkixName(cfg),
      Issuer                |-> pkixName(cfg),
      NotBefore             |-> notBefore,
      NotAfter              |-> AddDate(notBefore, cfg.ValidityDays),
      KeyUsage              |-> {"CertSign", "CRLSign"},
      ExtKeyUsage           |-> {},
      BasicConstraintsValid |-> TRUE,
      IsCA                  |-> TRUE,
      MaxPathLen            |-> 1,
      MaxPathLenZero        |-> FALSE ]

PublicKey(priv) == [id |-> priv.id, bits |-> priv.bits]

\* ASN.1 UTCTime / GeneralizedTime hold the years 0..9999 only.
TimeEncodable(t) == ~Less64(t, Year0) /\ Less64(t, Year10000)

\* x509.CreateCertificate followed by x509.ParseCertificate: the certificate as
\* a parser reads it back, or Nil when it cannot be encoded.  The issuer is
\* the parent's subject; a zero MaxPathLen without MaxPathLenZero is "unset".
CreateCertificate(tmpl, parent, pub, priv) ==
    LET pathLen == IF tmpl.MaxPathLen = 0 /\ ~tmpl.MaxPathLenZero
                   THEN -1 ELSE tmpl.MaxPathLen
    IN  IF \/ ~TimeEncodable(tmpl.NotBefore)
           \/ ~TimeEncodable(tmpl.NotAfter)
           \/ (tmpl.BasicConstraintsValid /\ ~tmpl.IsCA /\ pathLen # -1)
        THEN Nil
        ELSE Val(
             [ SerialNumber          |-> tmpl.SerialNumber,
               Subject               |-> tmpl.Subject,
               Issuer                |-> parent.Subject,
               NotBefore             |-> tmpl.NotBefore,
               NotAfter              |-> tmpl.NotAfter,
               KeyUsage              |-> tmpl.KeyUsage,
               BasicConstraintsValid |-> tmpl.BasicConstraintsValid,
               IsCA                  |-> tmpl.BasicConstraintsValid /\ tmpl.IsCA,
               MaxPathLen            |-> IF tmpl.BasicConstraintsValid /\ tmpl.IsCA
                                         THEN pathLen ELSE -1,
               MaxPathLenZero        |-> tmpl.BasicConstraintsValid /\ tmpl.IsCA
                                         /\ pathLen = 0,
               PublicKey             |-> pub,
               SignedBy              |-> priv.id ])

\* pem.EncodeToMemory of the certificate, and of the PKCS#8 form of the key
CertPEM(certBytes) == Content("CERTIFICATE", certBytes)

KeyPEM(priv) == Content("PRIVATE KEY", priv)


(***************************************************************************)
(* The state.                                                              *)
(***************************************************************************)
VARIABLES
    mode,        \* "direct": go-ca-gen run by hand; "script": run by the script
    args,        \* the parsed flags
    config,      \* main's CAConfig
    pc,          \* main's position
    fs,          \* the files: path -> [mode, content]
    dirs,        \* the directories that exist
    umask,       \* the process's umask
    privateKey,  \* GenerateRootCA's privateKey
    template,    \* GenerateRootCA's template
    ret,         \* what GenerateRootCA returned: certBytes, key, err
    exportErr,   \* what ExportToPEM returned
    trace,       \* what main has done so far, in order
    exitCode,    \* main's exit status, -1 while it runs
    spc,         \* the script's position
    leaf,        \* the leaf the script is at: 1 (server1), 2 (clientA)
    slog,        \* what the script has done so far, in order
    sexit,       \* the script's exit status, -1 while it runs
    fs0,         \* the files when main started
    dirs0        \* the directories when main started

govars == <<args, config, pc, privateKey, template, ret, exportErr, trace, exitCode>>
svars == <<spc, leaf, slog, sexit>>
start == <<fs0, dirs0>>
vars == <<mode, args, config, pc, fs, dirs, umask, privateKey, template, ret,
          exportErr, trace, exitCode, spc, leaf, slog, sexit, fs0, dirs0>>

\* main, lines 46-72: the flags and the config built from them.
CAConfig(a) ==
    [ CommonName     |-> a.cn,
      Organization   |-> a.org,
      ValidityDays   |-> a.days,
      KeyBitSize     |-> a.bits,
      CertOutputFile |-> <<>>,
      KeyOutputFile  |-> <<>> ]

NoRet == [certBytes |-> Nil, key |-> Nil, err |-> NoErr]

Running == -1

Fatal(events) ==
    /\ pc' = "fatal"
    /\ exitCode' = 1
    /\ trace' = trace \o events

(***************************************************************************)
(* main                                                                    *)
(***************************************************************************)
\* lines 77-82
PromptCommonName ==
    /\ pc = "prompt_cn"
    /\ IF config.CommonName = <<>>
       THEN \E line \in Strings(MaxLineLen) :
              LET answer == promptUser(line, <<>>)
              IN  /\ config' = [config EXCEPT !.CommonName = answer]
                  /\ IF answer = <<>>
                     THEN Fatal(<<"prompt_cn", "fatal_cn">>)
                     ELSE /\ pc' = "prompt_org"
                          /\ trace' = Append(trace, "prompt_cn")
                          /\ UNCHANGED exitCode
       ELSE /\ pc' = "prompt_org"
            /\ UNCHANGED <<config, trace, exitCode>>
    /\ UNCHANGED <<mode, args, fs, dirs, umask, privateKey, template, ret, exportErr, svars, start>>

\* lines 84-87
PromptOrganization ==
    /\ pc = "prompt_org"
    /\ IF config.Organization = <<>>
       THEN \E line \in Strings(MaxLineLen) :
              /\ config' = [config EXCEPT !.Organization = promptUser(line, <<>>)]
              /\ trace' = Append(trace, "prompt_org")
       ELSE UNCHANGED <<config, trace>>
    /\ pc' = "check_bits"
    /\ UNCHANGED <<mode, args, fs, dirs, umask, privateKey, template, ret, exportErr,
                   exitCode, svars, start>>

\* lines 89-96: warnings only
BitsWarnings(bits) ==
    IF bits # 2048 /\ bits # 4096
    THEN <<"warn_bits">> \o (IF bits < 2048 THEN <<"warn_insecure">> ELSE <<>>)
    ELSE <<>>

ValidateKeyBitSize ==
    /\ pc = "check_bits"
    /\ trace' = trace \o BitsWarnings(config.KeyBitSize)
    /\ pc' = "check_days"
    /\ UNCHANGED <<mode, args, config, fs, dirs, umask, privateKey, template, ret,
                   exportErr, exitCode, svars, start>>

\* the check written as "< 0"
DaysRejectedNegativeOnly(days) == IsNeg64(days)

\* line 99
DaysRejected(days) == ~Positive64(days)

\* lines 98-105
ValidateValidityDays ==
    /\ pc = "check_days"
    /\ IF DaysRejected(config.ValidityDays)
       THEN /\ Fatal(<<"fatal_days">>)
            /\ UNCHANGED config
       ELSE /\ config' = [config EXCEPT
                            !.CertOutputFile = Join(args.out, args.certName),
                            !.KeyOutputFile  = Join(args.out, args.keyName)]
            /\ pc' = "mkdir"
            /\ UNCHANGED <<trace, exitCode>>
    /\ UNCHANGED <<mode, args, fs, dirs, umask, privateKey, template, ret, exportErr, svars, start>>

\* lines 107-110: os.MkdirAll(outputDir, 0755)
MkdirAll ==
    /\ pc = "mkdir"
    /\ \/ /\ dirs' = dirs \cup Prefixes(Clean(args.out))
          /\ trace' = Append(trace, "mkdir")
          /\ pc' = "gen_key"
          /\ UNCHANGED exitCode
       \/ /\ Clean(args.out) \notin dirs
          /\ Fatal(<<"fatal_mkdir">>)
          /\ UNCHANGED dirs
    /\ UNCHANGED <<mode, args, config, fs, umask, privateKey, template, ret, exportErr, svars, start>>

(***************************************************************************)
(* GenerateRootCA                                                          *)
(***************************************************************************)
\* a size below 2048 raised to 2048 instead of only warned about
KeyGenBitsClamped(cfg) == IF cfg.KeyBitSize < 2048 THEN 2048 ELSE cfg.KeyBitSize

\* The size handed to rsa.GenerateKey (line 160)
KeyGenBits(cfg) == cfg.KeyBitSize

\* lines 158-164
GenerateKey ==
    /\ pc = "gen_key"
    /\ trace' = Append(trace, "keygen")
    /\ \/ /\ KeyGenBits(config) > 0
          /\ \E id \in KeyIds : privateKey' = Val([id |-> id, bits |-> KeyGenBits(config)])
          /\ pc' = "gen_template"
          /\ UNCHANGED ret
       \/ /\ ret' = [certBytes |-> Nil, key |-> Nil, err |-> "failed to generate RSA key"]
          /\ pc' = "gen_return"
          /\ UNCHANGED privateKey
    /\ UNCHANGED <<mode, args, config, fs, dirs, umask, template, exportErr, exitCode, svars, start>>

\* lines 166-204
CreateTemplate ==
    /\ pc = "gen_template"
    /\ trace' = Append(trace, "template")
    /\ \/ /\ \E serial \in randInt(serialNumberLimit), now \in NowValues :
               template' = Val(Template(config, serial, now))
          /\ pc' = "gen_sign"
          /\ UNCHANGED ret
       \/ /\ ret' = [certBytes |-> Nil, key |-> Nil, err |-> "failed to generate serial number"]
          /\ pc' = "gen_return"
          /\ UNCHANGED template
    /\ UNCHANGED <<mode, args, config, fs, dirs, umask, privateKey, exportErr, exitCode, svars, start>>

\* line 211: the template is its own parent, the key signs its own public key
SelfSign(tmpl, priv) == CreateCertificate(tmpl, tmpl, PublicKey(priv), priv)

\* lines 206-222
SignCertificate ==
    /\ pc = "gen_sign"
    /\ trace' = Append(trace, "sign")
    /\ LET cert == SelfSign(template[1], privateKey[1])
       IN  \/ /\ cert # Nil
              /\ ret' = [certBytes |-> cert, key |-> privateKey, err |-> NoErr]
           \/ ret' = [certBytes |-> Nil, key |-> Nil, err |-> "failed to create certificate"]
    /\ pc' = "gen_return"
    /\ UNCHANGED <<mode, args, config, fs, dirs, umask, privateKey, template, exportErr,
                   exitCode, svars, start>>

\* main going on to the export without looking at err
MainAfterGenerateNoCheck ==
    /\ pc = "gen_return"
    /\ trace' = Append(trace, "generated")
    /\ pc' = "export_cert"
    /\ UNCHANGED <<mode, args, config, fs, dirs, umask, privateKey, template, ret,
                   exportErr, exitCode, svars, start>>

\* main, lines 123-130
MainAfterGenerate ==
    /\ pc = "gen_return"
    /\ IF ret.err # NoErr
       THEN Fatal(<<"fatal_generate">>)
       ELSE /\ trace' = Append(trace, "generated")
            /\ pc' = "export_cert"
            /\ UNCHANGED exitCode
    /\ UNCHANGED <<mode, args, config, fs, dirs, umask, privateKey, template, ret,
                   exportErr, svars, start>>


(***************************************************************************)
(* ExportToPEM                                                             *)
(***************************************************************************)
\* lines 227-239
ExportCert ==
    /\ pc = "export_cert"
    /\ LET path == config.CertOutputFile
       IN  \/ /\ Parent(path) \in dirs
              /\ fs' = WriteFile(fs, umask, path, CertPEM(ret.certBytes), CertPerm)
              /\ trace' = Append(trace, "write_cert")
              /\ pc' = "export_key"
              /\ UNCHANGED exportErr
           \/ /\ \/ UNCHANGED fs
                 \/ /\ Parent(path) \in dirs
                    /\ fs' = WriteFileTruncated(fs, umask, path, CertPerm)
              /\ exportErr' = "failed to write certificate PEM file"
              /\ pc' = "export_return"
              /\ UNCHANGED trace
    /\ UNCHANGED <<mode, args, config, dirs, umask, privateKey, template, ret, exitCode, svars, start>>

\* lines 241-259
ExportKey ==
    /\ pc = "export_key"
    /\ LET path == config.KeyOutputFile
       IN  \/ /\ Parent(path) \in dirs
              /\ fs' = WriteFile(fs, umask, path, KeyPEM(ret.key), KeyPerm)
              /\ trace' = Append(trace, "write_key")
              /\ UNCHANGED exportErr
           \/ /\ \/ UNCHANGED fs
                 \/ /\ Parent(path) \in dirs
                    /\ fs' = WriteFileTruncated(fs, umask, path, KeyPerm)
              /\ exportErr' = "failed to write private key PEM file"
              /\ UNCHANGED trace
    /\ pc' = "export_return"
    /\ UNCHANGED <<mode, args, config, dirs, umask, privateKey, template, ret, exitCode, svars, start>>

\* main, lines 131-138
MainAfterExport ==
    /\ pc = "export_return"
    /\ IF exportErr # NoErr
       THEN Fatal(<<"fatal_export">>)
       ELSE /\ trace' = Append(trace, "success")
            /\ pc' = "done"
            /\ exitCode' = 0
    /\ UNCHANGED <<mode, args, config, fs, dirs, umask, privateKey, template, ret,
                   exportErr, svars, start>>


(***************************************************************************)
(* The companion script.                                                   *)
(***************************************************************************)
BASE_DIR     == <<".", "pki_test">>
CA_DIR       == BASE_DIR \o <<"ca">>
CERTS_DIR    == BASE_DIR \o <<"certs">>
CA_CN        == <<"a", " ", "a">>
CA_ORG       == <<"a">>
CA_CERT_NAME == "root-ca.crt"
CA_KEY_NAME  == "root-ca.key"
CA_CERT_PATH == Clean(CA_DIR \o <<CA_CERT_NAME>>)
CA_KEY_PATH  == Clean(CA_DIR \o <<CA_KEY_NAME>>)
CA_SERIAL_FILE == Clean(CA_DIR \o <<"root-ca.srl">>)
LeafNames    == <<"server1", "clientA">>

\* lines 61-67: the generator's flags (-bits is left at its default)
ScriptArgs ==
    [ cn |-> CA_CN, org |-> CA_ORG, days |-> Int64(1825), bits |-> defaultKeyBitSize,
      out |-> CA_DIR, certName |-> CA_CERT_NAME, keyName |-> CA_KEY_NAME ]

LeafPath(n, ext) == Clean(CERTS_DIR \o <<LeafNames[n] \o ext>>)

\* error_exit, or set -e on a failing command: a non-zero status, nothing after
ScriptStop(status, event) ==
    /\ spc' = "exited"
    /\ sexit' = status
    /\ slog' = Append(slog, event)

\* lines 48-57: check_command openssl, the generator is executable, rm -rf, mkdir -p
Setup ==
    /\ spc = "setup"
    /\ \/ /\ fs' = [p \in {q \in DOMAIN fs : ~Under(q, Clean(BASE_DIR))} |-> fs[p]]
          /\ dirs' = {d \in dirs : ~Under(d, Clean(BASE_DIR))}
                     \cup Prefixes(Clean(CA_DIR)) \cup Prefixes(Clean(CERTS_DIR))
          /\ spc' = "run_generator"
          /\ slog' = Append(slog, <<"setup", 0>>)
          /\ UNCHANGED <<sexit>>
       \/ /\ ScriptStop(1, <<"setup_failed", 0>>)
          /\ UNCHANGED <<fs, dirs>>
    /\ UNCHANGED <<mode, umask, leaf, govars, start>>

\* lines 60-67: the generator starts
RunGenerator ==
    /\ spc = "run_generator"
    /\ args' = ScriptArgs
    /\ config' = CAConfig(ScriptArgs)
    /\ pc' = "prompt_cn"
    /\ spc' = "generator"
    /\ slog' = Append(slog, <<"generator", 0>>)
    /\ fs0' = fs
    /\ dirs0' = dirs
    /\ UNCHANGED <<mode, fs, dirs, umask, privateKey, template, ret, exportErr, trace,
                   exitCode, leaf, sexit>>

IsPEM(file, type) == file.content.type = type /\ file.content.bytes # <<>>

\* the script without set -e: the generator's status is not looked at
GeneratorReturnedNoSetE ==
    /\ spc = "generator"
    /\ pc \in {"done", "fatal"}
    /\ IF CA_CERT_PATH \notin DOMAIN fs \/ CA_KEY_PATH \notin DOMAIN fs
       THEN /\ ScriptStop(1, <<"root_missing", 0>>)
            /\ UNCHANGED fs
       ELSE /\ fs' = WriteFile(fs, umask, CA_SERIAL_FILE, Content("serial", <<1>>), 438)
            /\ spc' = "leaf_key"
            /\ slog' = Append(slog, <<"root_ok", 0>>)
            /\ UNCHANGED sexit
    /\ UNCHANGED <<mode, dirs, umask, leaf, govars, start>>

\* lines 67-77: the generator has ended; set -e, the -f tests, the serial file
GeneratorReturned ==
    /\ spc = "generator"
    /\ pc \in {"done", "fatal"}
    /\ IF exitCode # 0
       THEN /\ ScriptStop(exitCode, <<"generator_failed", 0>>)
            /\ UNCHANGED fs
       ELSE IF CA_CERT_PATH \notin DOMAIN fs \/ CA_KEY_PATH \notin DOMAIN fs
       THEN /\ ScriptStop(1, <<"root_missing", 0>>)
            /\ UNCHANGED fs
       ELSE \/ /\ fs' = WriteFile(fs, umask, CA_SERIAL_FILE, Content("serial", <<1>>), 438)
               /\ spc' = "leaf_key"
               /\ slog' = Append(slog, <<"root_ok", 0>>)
               /\ UNCHANGED sexit
            \/ /\ ScriptStop(1, <<"serial_failed", 0>>)
               /\ UNCHANGED fs
    /\ UNCHANGED <<mode, dirs, umask, leaf, govars, start>>

\* lines 88-92: openssl genpkey
LeafGenKey ==
    /\ spc = "leaf_key"
    /\ \/ /\ fs' = WriteFile(fs, umask, LeafPath(leaf, ".key"),
                             Content("PRIVATE KEY", Val([id |-> LeafNames[leaf], bits |-> 2048])),
                             KeyPerm)
          /\ spc' = "leaf_csr"
          /\ slog' = Append(slog, <<"genpkey", leaf>>)
          /\ UNCHANGED sexit
       \/ /\ ScriptStop(1, <<"genpkey_failed", leaf>>)
          /\ UNCHANGED fs
    /\ UNCHANGED <<mode, dirs, umask, leaf, govars, start>>

\* lines 94-98: openssl req -new
LeafCSR ==
    /\ spc = "leaf_csr"
    /\ \/ /\ IsPEM(FileAt(fs, LeafPath(leaf, ".key")), "PRIVATE KEY")
          /\ fs' = WriteFile(fs, umask, LeafPath(leaf, ".csr"),
                             Content("CERTIFICATE REQUEST",
                                     Val([key |-> FileAt(fs, LeafPath(leaf, ".key")).content.bytes[1].id])),
                             438)
          /\ spc' = "leaf_sign"
          /\ slog' = Append(slog, <<"req", leaf>>)
          /\ UNCHANGED sexit
       \/ /\ ScriptStop(1, <<"req_failed", leaf>>)
          /\ UNCHANGED fs
    /\ UNCHANGED <<mode, dirs, umask, leaf, govars, start>>

\* lines 100-109: openssl x509 -req -CA -CAkey
LeafSign ==
    /\ spc = "leaf_sign"
    /\ \/ /\ IsPEM(FileAt(fs, LeafPath(leaf, ".csr")), "CERTIFICATE REQUEST")
          /\ IsPEM(FileAt(fs, CA_CERT_PATH), "CERTIFICATE")
          /\ IsPEM(FileAt(fs, CA_KEY_PATH), "PRIVATE KEY")
          /\ fs' = WriteFile(fs, umask, LeafPath(leaf, ".crt"),
                             Content("CERTIFICATE",
                                     Val([ Issuer    |-> fs[CA_CERT_PATH].content.bytes[1].Subject,
                                           PublicKey |-> fs[LeafPath(leaf, ".csr")].content.bytes[1].key,
                                           SignedBy  |-> fs[CA_KEY_PATH].content.bytes[1].id ])),
                             438)
          /\ spc' = "leaf_verify"
          /\ slog' = Append(slog, <<"sign", leaf>>)
          /\ UNCHANGED sexit
       \/ /\ ScriptStop(1, <<"sign_failed", leaf>>)
          /\ UNCHANGED fs
    /\ UNCHANGED <<mode, dirs, umask, leaf, govars, start>>

\* openssl verify -CAfile: the chain leaf -> root holds
ChainVerifies(root, leafCert) ==
    /\ leafCert.Issuer = root.Subject
    /\ leafCert.SignedBy = root.PublicKey.id
    /\ root.IsCA
    /\ "CertSign" \in root.KeyUsage

\* lines 111-114, and 118-121: the next leaf
LeafVerify ==
    /\ spc = "leaf_verify"
    /\ \/ /\ IsPEM(FileAt(fs, CA_CERT_PATH), "CERTIFICATE")
          /\ IsPEM(FileAt(fs, LeafPath(leaf, ".crt")), "CERTIFICATE")
          /\ ChainVerifies(fs[CA_CERT_PATH].content.bytes[1],
                           fs[LeafPath(leaf, ".crt")].content.bytes[1])
          /\ slog' = Append(slog, <<"verify", leaf>>)
          /\ IF leaf < Len(LeafNames)
             THEN leaf' = leaf + 1 /\ spc' = "leaf_key"
             ELSE spc' = "completion" /\ UNCHANGED leaf
          /\ UNCHANGED sexit
       \/ /\ ScriptStop(1, <<"verify_failed", leaf>>)
          /\ UNCHANGED leaf
    /\ UNCHANGED <<mode, fs, dirs, umask, govars, start>>

\* lines 124-141
Completion ==
    /\ spc = "completion"
    /\ slog' = Append(slog, <<"Test Completed Successfully!", 0>>)
    /\ spc' = "exited"
    /\ sexit' = 0
    /\ UNCHANGED <<mode, fs, dirs, umask, leaf, govars, start>>

(***************************************************************************)
(* The runs.                                                               *)
(***************************************************************************)
\* What the output directory can hold before a run by hand: an older key
\* file (0600 as an earlier run left it, or 0644 as another tool did) and an
\* older certificate file (0644), or neither.
PriorFiles(dir) ==
    { kf @@ cf :
        kf \in {<<>>} \cup {(Join(dir, defaultKeyFileName) :> OldFile(m)) : m \in {KeyPerm, CertPerm}},
        cf \in {<<>>} \cup {(Join(dir, defaultCertFileName) :> OldFile(CertPerm))} }

InitDirect ==
    /\ mode = "direct"
    /\ args \in [ cn : CNFlags, org : OrgFlags, days : DaysValues, bits : BitsValues,
                  out : OutputDirs, certName : FileNames, keyName : {defaultKeyFileName} ]
    /\ config = CAConfig(args)
    /\ pc = "prompt_cn"
    /\ dirs \in {{<<>>}, {<<>>, Clean(args.out)}}
    /\ fs \in (IF Clean(args.out) \in dirs THEN PriorFiles(args.out) ELSE {<<>>})
    /\ spc = "off"

\* The script starts after an earlier run of it, or on a clean directory.
InitScript ==
    /\ mode = "script"
    /\ args = ScriptArgs
    /\ config = CAConfig(ScriptArgs)
    /\ pc = "idle"
    /\ \/ dirs = {<<>>} /\ fs = <<>>
       \/ /\ dirs = {<<>>} \cup Prefixes(Clean(CA_DIR))
          /\ fs \in { (CA_KEY_PATH :> OldFile(m)) @@ (CA_CERT_PATH :> OldFile(CertPerm))
                      : m \in {KeyPerm, CertPerm} }
    /\ spc = "setup"

Init ==
    /\ InitDirect \/ InitScript
    /\ umask \in Umasks
    /\ fs0 = fs
    /\ dirs0 = dirs
    /\ privateKey = Nil
    /\ template = Nil
    /\ ret = NoRet
    /\ exportErr = NoErr
    /\ trace = <<>>
    /\ exitCode = Running
    /\ leaf = 1
    /\ slog = <<>>
    /\ sexit = Running

Next ==
    \/ PromptCommonName
    \/ PromptOrganization
    \/ ValidateKeyBitSize
    \/ ValidateValidityDays
    \/ MkdirAll
    \/ GenerateKey
    \/ CreateTemplate
    \/ SignCertificate
    \/ MainAfterGenerate
    \/ ExportCert
    \/ ExportKey
    \/ MainAfterExport
    \/ Setup
    \/ RunGenerator
    \/ GeneratorReturned
    \/ LeafGenKey
    \/ LeafCSR
    \/ LeafSign
    \/ LeafVerify
    \/ Completion

Spec == Init /\ [][Next]_vars


(***************************************************************************)
(* The claims.                                                             *)
(***************************************************************************)
Has(event) == \E i \in DOMAIN trace : trace[i] = event

Terminated == pc \in {"done", "fatal"}

IsStep(e) ==
    e \in {"keygen", "template", "sign", "generated", "write_cert", "write_key", "success"}

\* C1: a run that reports success has generated the key, built the template,
\* signed, written the certificate file and then the key file, in this order;
\* the export starts only after GenerateRootCA returned without error; and at
\* the report both files, at <out>/<cert-name> and <out>/<key-name>, have been
\* written (the key file holds this run's key, the certificate file this run's
\* certificate unless both names are one file).
C1_SuccessOrder ==
    /\ (Has("success") \/ pc = "done") =>
          /\ SelectSeq(trace, IsStep)
               = <<"keygen", "template", "sign", "generated", "write_cert", "write_key", "success">>
          /\ pc = "done" /\ exitCode = 0
          /\ config.CertOutputFile = Join(args.out, args.certName)
          /\ config.KeyOutputFile = Join(args.out, args.keyName)
          /\ FileAt(fs, config.KeyOutputFile).content = KeyPEM(ret.key)
          /\ config.CertOutputFile # config.KeyOutputFile
               => FileAt(fs, config.CertOutputFile).content = CertPEM(ret.certBytes)
    /\ (pc \in {"export_cert", "export_key", "export_return"} \/ Has("write_cert") \/ Has("write_key")) =>
          /\ ret.err = NoErr
          /\ ret.certBytes # Nil
          /\ ret.key # Nil
          /\ Has("generated")

C1_Witness ==
    /\ pc = "done"
    /\ mode = "direct"
    /\ config.CertOutputFile # config.KeyOutputFile
    /\ Has("prompt_org")
    /\ config.Organization = <<>>

\* C2: every certificate GenerateRootCA returns is a self-signed CA
\* certificate: issuer = subject (CommonName and Organization of the config),
\* signed by the returned key, whose public key it carries, basic constraints
\* valid with IsCA, key usage exactly CertSign|CRLSign, MaxPathLen 1 and
\* MaxPathLenZero false.
C2_SelfSignedCA ==
    ret.certBytes # Nil =>
        LET cert == ret.certBytes[1]
        IN  /\ cert.Issuer = cert.Subject
            /\ cert.Subject.CommonName = config.CommonName
            /\ cert.Subject.Organization = <<config.Organization>>
            /\ ret.key # Nil
            /\ cert.PublicKey = PublicKey(ret.key[1])
            /\ cert.SignedBy = ret.key[1].id
            /\ cert.BasicConstraintsValid
            /\ cert.IsCA
            /\ cert.KeyUsage = {"CertSign", "CRLSign"}
            /\ cert.MaxPathLen = 1
            /\ ~cert.MaxPathLenZero

C2_Witness ==
    /\ ret.certBytes # Nil
    /\ ret.key # Nil
    /\ ret.key[1].id = "k2"
    /\ pc = "gen_return"

\* C3 (as claimed): once ExportToPEM has returned without error the key file
\* has mode 0600 and the certificate file mode 0644, whatever the output
\* directory held before.  Stated here for two different paths and the usual
\* umask 022 (which takes nothing from either mode): the easiest case of the
\* claim, one file cannot have both modes.
C3_ModesAfterExport ==
    ( /\ pc = "export_return"
      /\ exportErr = NoErr
      /\ umask = 18
      /\ config.CertOutputFile # config.KeyOutputFile ) =>
        /\ FileAt(fs, config.KeyOutputFile).mode = KeyPerm
        /\ FileAt(fs, config.CertOutputFile).mode = CertPerm


NotPositiveDays == ~Positive64(config.ValidityDays)

\* Nothing of the run's outside effects has happened: no directory made, no
\* key generated, no file written.
NothingDone ==
    /\ dirs = dirs0
    /\ fs = fs0
    /\ privateKey = Nil
    /\ ~Has("mkdir") /\ ~Has("keygen") /\ ~Has("write_cert") /\ ~Has("write_key")

DaysStopsRun ==
    NotPositiveDays =>
        /\ pc \in {"prompt_cn", "prompt_org", "check_bits", "check_days", "fatal"}
        /\ pc = "fatal" => exitCode = 1 /\ trace[Len(trace)] \in {"fatal_cn", "fatal_days"}
        /\ NothingDone

\* C4 (as claimed): with -days <= 0 main ends in a fatal error before the
\* directory is made, a key generated or a file written; with any value > 0
\* the run (its Common Name given) proceeds to generation.
C4_Original ==
    /\ DaysStopsRun
    /\ (~NotPositiveDays /\ Terminated /\ ~Has("fatal_cn")) => Has("keygen")

\* C4 (amended): with -days <= 0 main ends in a fatal error before the
\* directory is made, a key generated or a file written; with any value > 0
\* a run that reaches the days check (its Common Name is not empty) passes
\* it and goes on to os.MkdirAll, and to generation once MkdirAll has
\* succeeded; a MkdirAll error is fatal before generation.
C4_DaysPositive ==
    /\ DaysStopsRun
    /\ ~NotPositiveDays =>
          /\ ~Has("fatal_days")
          /\ (Terminated /\ ~Has("fatal_cn")) => (Has("mkdir") \/ Has("fatal_mkdir"))
          /\ (Terminated /\ Has("mkdir")) => Has("keygen")
          /\ Has("fatal_mkdir") => ~Has("keygen") /\ pc = "fatal"

C4_Witness ==
    /\ pc = "fatal"
    /\ Has("fatal_days")
    /\ config.ValidityDays = Int64(0)
    /\ config.CommonName # <<>>

\* C5: the Common Name is asked for exactly when -cn is empty; an answer that
\* is empty once trimmed ends main in a fatal error with no key generated and
\* no file written; no template or certificate ever has an empty CommonName;
\* the Organization is asked for exactly when -org is empty, and whatever is
\* answered the run goes on.
C5_CommonNameRequired ==
    /\ pc \notin {"idle", "prompt_cn"} => (Has("prompt_cn") <=> args.cn = <<>>)
    /\ Has("prompt_cn") => config.CommonName = TrimSpace(config.CommonName)
    /\ Has("fatal_cn") <=> (pc \notin {"idle", "prompt_cn"} /\ config.CommonName = <<>>)
    /\ Has("fatal_cn") => pc = "fatal" /\ exitCode = 1 /\ NothingDone /\ Has("prompt_cn")
    /\ template # Nil => template[1].Subject.CommonName # <<>>
    /\ ret.certBytes # Nil => ret.certBytes[1].Subject.CommonName # <<>>
    /\ (pc \notin {"idle", "prompt_cn", "prompt_org"} /\ ~Has("fatal_cn"))
          => (Has("prompt_org") <=> args.org = <<>>)
    /\ ~Has("prompt_org") => config.Organization = args.org

C5_Witness ==
    /\ mode = "direct"
    /\ Has("fatal_cn")
    /\ pc = "fatal"
    /\ args.cn = <<>>

(***************************************************************************)
ExpectedLog ==
    << <<"setup", 0>>, <<"generator", 0>>, <<"root_ok", 0>>,
       <<"genpkey", 1>>, <<"req", 1>>, <<"sign", 1>>, <<"verify", 1>>,
       <<"genpkey", 2>>, <<"req", 2>>, <<"sign", 2>>, <<"verify", 2>>,
       <<"Test Completed Successfully!", 0>> >>

IsPrefix(a, b) == Len(a) <= Len(b) /\ SubSeq(b, 1, Len(a)) = a

FailureEvents ==
    {"setup_failed", "generator_failed", "root_missing", "serial_failed",
     "genpkey_failed", "req_failed", "sign_failed", "verify_failed"}

RootIsGenerated ==
    /\ pc = "done" /\ exitCode = 0
    /\ FileAt(fs, CA_CERT_PATH).content = CertPEM(ret.certBytes)
    /\ FileAt(fs, CA_KEY_PATH).content = KeyPEM(ret.key)
    /\ ret.certBytes # Nil /\ ret.key # Nil

\* C6: the script ends with "Test Completed Successfully!" and status 0 only
\* after the generator wrote the root certificate and key and, for server1 and
\* then clientA, key, CSR, signing and verification succeeded in this order;
\* a failing step ends the script with a non-zero status and nothing runs
\* after it.
C6_ScriptCompletes ==
    /\ sexit # Running => spc = "exited"
    /\ sexit = Running => IsPrefix(slog, SubSeq(ExpectedLog, 1, Len(ExpectedLog) - 1))
    /\ sexit = 0 =>
          /\ slog = ExpectedLog
          /\ RootIsGenerated
          /\ \A n \in 1..Len(LeafNames) :
                /\ IsPEM(FileAt(fs, LeafPath(n, ".crt")), "CERTIFICATE")
                /\ ChainVerifies(ret.certBytes[1], fs[LeafPath(n, ".crt")].content.bytes[1])
    /\ (sexit # Running /\ sexit # 0) =>
          /\ sexit > 0
          /\ slog # <<>>
          /\ slog[Len(slog)][1] \in FailureEvents
          /\ IsPrefix(SubSeq(slog, 1, Len(slog) - 1), SubSeq(ExpectedLog, 1, Len(ExpectedLog) - 1))
    /\ (\E i \in DOMAIN slog : slog[i] = <<"root_ok", 0>>) => RootIsGenerated

C6_Witness ==
    /\ sexit = 0
    /\ spc = "exited"
    /\ slog = ExpectedLog

(***************************************************************************)
\* C7 (as claimed): in every certificate issued NotAfter is exactly
\* ValidityDays days (of 86400 seconds, the times being UTC) after NotBefore,
\* and so, the days being positive, NotBefore is strictly before NotAfter.
C7_ValidityWindow ==
    ret.certBytes # Nil =>
        LET cert == ret.certBytes[1]
        IN  /\ Positive64(config.ValidityDays)
            /\ ~IsNeg64(cert.NotAfter)
            /\ Norm(cert.NotAfter)
                 = NatAdd(Norm(cert.NotBefore), NatMulSecondsPerDay(Norm(config.ValidityDays)))
            /\ Less64(cert.NotBefore, cert.NotAfter)

(***************************************************************************)
Pow2to128 == [i \in 1..9 |-> IF i = 9 THEN 1 ELSE 0]

IsNatural(a) == \A i \in DOMAIN a : a[i] \in 0..(LimbBase - 1)

\* C8: the serial number of every template and issued certificate is an
\* integer s with 0 <= s < 2^128, and when the draw fails GenerateRootCA
\* returns an error, a nil certificate and a nil key.
C8_SerialNumber ==
    /\ template # Nil =>
          /\ IsNatural(template[1].SerialNumber)
          /\ NatLess(template[1].SerialNumber, Pow2to128)
    /\ ret.certBytes # Nil =>
          /\ template # Nil
          /\ ret.certBytes[1].SerialNumber = template[1].SerialNumber
    /\ (pc = "gen_return" /\ trace[Len(trace)] = "template") =>
          ret = [certBytes |-> Nil, key |-> Nil, err |-> "failed to generate serial number"]
    /\ ret.err = "failed to generate serial number" =>
          ret.certBytes = Nil /\ ret.key = Nil /\ template = Nil

C8_Witness ==
    /\ ret.certBytes # Nil
    /\ ret.certBytes[1].SerialNumber = <<>>
    /\ pc = "done"

(***************************************************************************)
\* C9: a -bits value other than 2048 and 4096 only adds a warning (and the
\* insecurity warning below 2048) and the run goes on to the days check; the
\* key generated has exactly the requested size; and when key generation
\* fails GenerateRootCA returns the error with nil results and main exits
\* fatally with no file written.
C9_KeySize ==
    /\ (pc \notin {"idle", "prompt_cn", "prompt_org", "check_bits"} /\ ~Has("fatal_cn")) =>
          /\ Has("warn_bits") <=> (args.bits # 2048 /\ args.bits # 4096)
          /\ Has("warn_insecure") <=> args.bits < 2048
    /\ (Terminated /\ ~Has("fatal_cn")) =>
          (Has("fatal_days") \/ Has("mkdir") \/ Has("fatal_mkdir"))
    /\ (Terminated /\ Has("mkdir")) => Has("keygen")
    /\ privateKey # Nil => privateKey[1].bits = args.bits /\ config.KeyBitSize = args.bits
    /\ (pc = "gen_return" /\ trace[Len(trace)] = "keygen") =>
          ret = [certBytes |-> Nil, key |-> Nil, err |-> "failed to generate RSA key"]
    /\ ret.err = "failed to generate RSA key" =>
          /\ fs = fs0
          /\ ~Has("write_cert") /\ ~Has("write_key")
          /\ pc \in {"gen_return", "fatal"}
          /\ pc = "fatal" => exitCode = 1 /\ trace[Len(trace)] = "fatal_generate"

C9_Witness ==
    /\ pc = "done"
    /\ args.bits = 1024
    /\ privateKey # Nil
    /\ privateKey[1].bits = 1024
    /\ Has("warn_insecure")

=============================================================================
